---- MODULE Spec2Model ----
(***************************************************************************)
(* Model of two pieces of api/core/model_runtime/model_providers:          *)
(*   localai/text_embedding/text_embedding.py  LocalAITextEmbeddingModel   *)
(*   minimax/tokenizer.py                      MinimaxTokenizer            *)
(*                                                                         *)
(* Spec      the embedding client: one _invoke / validate_credentials call *)
(*           at a time, the server's reply chosen by the environment.      *)
(* SpecSeq   get_encoder calls that do not overlap in time.                *)
(* SpecConc  get_encoder calls of several threads, interleaved at the      *)
(*           granularity of the reads and writes of the module global.     *)
(***************************************************************************)
EXTENDS Integers, Sequences, FiniteSets, TLC

VARIABLES
    pc,         \* position of the client call: "idle", "posting", "done"
    caller,     \* operation in progress: "_invoke" or "validate_credentials"
    args,       \* arguments of the _invoke call: model, credentials, texts
    requests,   \* HTTP requests sent by the call so far
    response,   \* what requests.post gave back (a response or an exception)
    outcome,    \* how _invoke ended
    result,     \* how the operation in progress ended
    tokenizer,  \* tokenizer.py: the module global
    tpc,        \* per thread: position inside get_encoder
    seen,       \* per thread: the value the "is None" test read
    loaded,     \* per thread: the instance from_pretrained constructed
    returned,   \* per thread: the value the last finished call returned
    quiet,      \* per thread: the call started with no first use in progress
    loads,      \* number of from_pretrained calls so far
    ncalls,     \* number of get_encoder calls started so far
    history     \* log of finished calls: thread, value, quiet

clientVars == <<pc, caller, args, requests, response, outcome, result>>
tokVars == <<tokenizer, tpc, seen, loaded, returned, quiet, loads, ncalls, history>>
vars == <<pc, caller, args, requests, response, outcome, result,
          tokenizer, tpc, seen, loaded, returned, quiet, loads, ncalls, history>>

\* ------------------------------------------------------------------ bounds
MaxTexts == 2
MaxData == 2
NThreads == 2
MaxCalls == 5

\* ------------------------------------------------------- values and inputs
Restrict(f, D) == [k \in D |-> f[k]]

EmptyObject == Restrict([x |-> 0], {})

SeqsUpTo(S, n) == UNION { [1..k -> S] : k \in 0..n }

Texts == SeqsUpTo({"ping", "a"}, MaxTexts)

Models == {"", "localai-embed"}

\* the credentials mapping: with or without the key server_url
Credentials == { Restrict([server_url |-> u], D) :
                    u \in {"", "http://localhost:8080"}, D \in SUBSET {"server_url"} }

StatusCodes == {200, 400, 401, 429, 500}

ErrorCodes == {400, 401, 429, 500}

ErrorObjects == { Restrict([code |-> c, message |-> m], D) :
                    c \in ErrorCodes, m \in {"bad key"}, D \in SUBSET {"code", "message"} }

DataEntries == { Restrict([embedding |-> <<1, 2>>], D) : D \in SUBSET {"embedding"} }

DataArrays == SeqsUpTo(DataEntries, MaxData)

UsageObjects == { Restrict([total_tokens |-> 5], D) : D \in SUBSET {"total_tokens"} }

JsonObjects == { Restrict([error |-> e, data |-> d, usage |-> u], D) :
                    e \in ErrorObjects, d \in DataArrays, u \in UsageObjects,
                    D \in SUBSET {"error", "data", "usage"} }

\* a response body as sent: text that is no JSON, a JSON array, a JSON object
Bodies == {[kind |-> "text", obj |-> EmptyObject], [kind |-> "array", obj |-> EmptyObject]}
          \cup { [kind |-> "object", obj |-> o] : o \in JsonObjects }

Replies == {[kind |-> "exception", status_code |-> 0, text |-> [kind |-> "text", obj |-> EmptyObject]]}
           \cup { [kind |-> "response", status_code |-> s, text |-> b] :
                    s \in StatusCodes, b \in Bodies }

NoReply == [kind |-> "none"]

\* ------------------------------------------------------------ outcomes
NoValue == [none |-> TRUE]

NoOutcome == [exc |-> "pending", msg |-> NoValue, value |-> NoValue]

Raise(e, m) == [exc |-> e, msg |-> m, value |-> NoValue]

Return(v) == [exc |-> "none", msg |-> NoValue, value |-> v]

\* response.json(): the parse of the body text
json(text) ==
    IF text.kind = "text"
    THEN [ok |-> FALSE, reason |-> "Expecting value", type |-> "none", obj |-> EmptyObject]
    ELSE [ok |-> TRUE, reason |-> "", type |-> text.kind, obj |-> text.obj]

Truthy(s) == s # ""

ConvertFailure(e, text) ==
    [fmt |-> "Failed to convert response to json: {e} with text: {response.text}",
     e |-> e, text |-> text]

\* ------------------------------------------------------------- _invoke
TextsRejected_OnlyEmpty(texts) == Len(texts) = 0

TextsRejected(texts) == Len(texts) # 1

\* lines 32-40: what _invoke raises before it builds the request ("none": nothing)
check_arguments(model, credentials, texts) ==
    IF TextsRejected(texts)
    THEN Raise("InvokeBadRequestError", [fmt |-> "Only one text is supported"])
    ELSE IF "server_url" \notin DOMAIN credentials
    THEN Raise("KeyError", [fmt |-> "'server_url'"])
    ELSE IF ~Truthy(credentials["server_url"])
    THEN Raise("CredentialsValidateFailedError", [fmt |-> "server_url is required"])
    ELSE IF ~Truthy(model)
    THEN Raise("CredentialsValidateFailedError", [fmt |-> "model_name is required"])
    ELSE Return(NoValue)

build_request(model, credentials, texts) ==
    [url |-> <<credentials["server_url"], "embeddings">>,
     headers |-> [Authorization |-> "Bearer 123", ContentType |-> "application/json"],
     data |-> [model |-> model, input |-> texts[1]],
     timeout |-> 10]

error_dispatch_StatusFirst(status_code, code, msg) ==
    IF status_code = 401 THEN Raise("InvokeAuthorizationError", [fmt |-> msg])
    ELSE IF status_code = 429 THEN Raise("InvokeRateLimitError", [fmt |-> msg])
    ELSE IF status_code = 500 \/ code = 500 THEN Raise("InvokeServerUnavailableError", [fmt |-> msg])
    ELSE Raise("InvokeError", [fmt |-> msg])

\* lines 63-73
error_dispatch(status_code, code, msg) ==
    IF code = 500 THEN Raise("InvokeServerUnavailableError", [fmt |-> msg])
    ELSE IF status_code = 401 THEN Raise("InvokeAuthorizationError", [fmt |-> msg])
    ELSE IF status_code = 429 THEN Raise("InvokeRateLimitError", [fmt |-> msg])
    ELSE IF status_code = 500 THEN Raise("InvokeServerUnavailableError", [fmt |-> msg])
    ELSE Raise("InvokeError", [fmt |-> msg])

on_json_decode_error_ByStatus(resp, reason) ==
    IF resp.status_code = 401 THEN Raise("InvokeAuthorizationError", [fmt |-> reason])
    ELSE IF resp.status_code = 429 THEN Raise("InvokeRateLimitError", [fmt |-> reason])
    ELSE Raise("InvokeServerUnavailableError", ConvertFailure(reason, resp.text))

\* lines 74-75
on_json_decode_error(resp, reason) ==
    Raise("InvokeServerUnavailableError", ConvertFailure(reason, resp.text))

\* lines 58-75: the non-200 branch
error_response(resp) ==
    LET j == json(resp.text) IN
    IF ~j.ok THEN on_json_decode_error(resp, j.reason)
    ELSE IF j.type # "object"
    THEN Raise("TypeError", [fmt |-> "list indices must be integers or slices, not str"])
    ELSE IF "error" \notin DOMAIN j.obj THEN Raise("KeyError", [fmt |-> "'error'"])
    ELSE IF "code" \notin DOMAIN j.obj["error"] THEN Raise("KeyError", [fmt |-> "'code'"])
    ELSE IF "message" \notin DOMAIN j.obj["error"] THEN Raise("KeyError", [fmt |-> "'message'"])
    ELSE error_dispatch(resp.status_code, j.obj["error"]["code"], j.obj["error"]["message"])

\* lines 146-174 (the price lookup is an external collaborator)
calc_response_usage(tokens) == [tokens |-> tokens, total_tokens |-> tokens]

\* lines 77-94: the 200 branch
ok_response(model, resp) ==
    LET j == json(resp.text) IN
    IF ~j.ok
    THEN Raise("InvokeServerUnavailableError", ConvertFailure(j.reason, resp.text))
    ELSE IF j.type # "object"
    THEN Raise("InvokeServerUnavailableError",
               ConvertFailure("list indices must be integers or slices, not str", resp.text))
    ELSE IF "data" \notin DOMAIN j.obj
    THEN Raise("InvokeServerUnavailableError", ConvertFailure("'data'", resp.text))
    ELSE IF "usage" \notin DOMAIN j.obj
    THEN Raise("InvokeServerUnavailableError", ConvertFailure("'usage'", resp.text))
    ELSE IF "total_tokens" \notin DOMAIN j.obj["usage"]
    THEN Raise("KeyError", [fmt |-> "'total_tokens'"])
    ELSE IF \E i \in 1..Len(j.obj["data"]) : "embedding" \notin DOMAIN j.obj["data"][i]
    THEN Raise("KeyError", [fmt |-> "'embedding'"])
    ELSE Return([model |-> model,
                 embeddings |-> [i \in 1..Len(j.obj["data"]) |-> j.obj["data"][i]["embedding"]],
                 usage |-> calc_response_usage(j.obj["usage"]["total_tokens"])])

\* lines 53-94: _invoke from the return of requests.post on
after_post(model, reply) ==
    IF reply.kind = "exception"
    THEN Raise("InvokeConnectionError", [fmt |-> "{e}", e |-> "connection failed"])
    ELSE IF reply.status_code # 200 THEN error_response(reply)
    ELSE ok_response(model, reply)

\* ------------------------------------------------- validate_credentials
translate_probe_OnlyAuthorization(o) ==
    IF o.exc = "InvokeAuthorizationError"
    THEN Raise("CredentialsValidateFailedError", [fmt |-> "Invalid credentials"])
    ELSE IF o.exc = "none" THEN Return(NoValue)
    ELSE o

\* lines 119-124: the except clauses around the probe
translate_probe(o) ==
    IF o.exc = "InvokeAuthorizationError"
    THEN Raise("CredentialsValidateFailedError", [fmt |-> "Invalid credentials"])
    ELSE IF o.exc = "InvokeConnectionError"
    THEN Raise("CredentialsValidateFailedError", [fmt |-> "Invalid credentials: {e}", e |-> o.msg])
    ELSE IF o.exc = "none" THEN Return(NoValue)
    ELSE o

Finish(who, o) == IF who = "validate_credentials" THEN translate_probe(o) ELSE o

\* --------------------------------------------------------------- client
ClientInit ==
    /\ pc = "idle"
    /\ caller = "none"
    /\ args = [model |-> "", credentials |-> EmptyObject, texts |-> <<>>]
    /\ requests = <<>>
    /\ response = NoReply
    /\ outcome = NoOutcome
    /\ result = NoOutcome

\* _invoke up to requests.post: it raises, or the request is on the wire
Enter(who, model, credentials, texts) ==
    LET o == check_arguments(model, credentials, texts) IN
    /\ pc = "idle"
    /\ caller' = who
    /\ args' = [model |-> model, credentials |-> credentials, texts |-> texts]
    /\ response' = NoReply
    /\ IF o.exc = "none"
       THEN /\ pc' = "posting"
            /\ requests' = Append(requests, build_request(model, credentials, texts))
            /\ outcome' = NoOutcome
            /\ result' = NoOutcome
       ELSE /\ pc' = "done"
            /\ requests' = requests
            /\ outcome' = o
            /\ result' = Finish(who, o)

invoke ==
    /\ \E model \in Models, credentials \in Credentials, texts \in Texts :
          Enter("_invoke", model, credentials, texts)
    /\ UNCHANGED tokVars

validate_credentials ==
    /\ \E model \in Models, credentials \in Credentials :
          Enter("validate_credentials", model, credentials, <<"ping">>)
    /\ UNCHANGED tokVars

\* requests.post returns or raises, and _invoke runs to its end
post_returns ==
    /\ pc = "posting"
    /\ \E reply \in Replies :
          /\ response' = reply
          /\ outcome' = after_post(args.model, reply)
          /\ result' = Finish(caller, after_post(args.model, reply))
    /\ pc' = "done"
    /\ UNCHANGED <<caller, args, requests>>
    /\ UNCHANGED tokVars

\* the caller has the outcome; the next call starts from scratch
call_ends ==
    /\ pc = "done"
    /\ pc' = "idle"
    /\ caller' = "none"
    /\ args' = [model |-> "", credentials |-> EmptyObject, texts |-> <<>>]
    /\ requests' = <<>>
    /\ response' = NoReply
    /\ outcome' = NoOutcome
    /\ result' = NoOutcome
    /\ UNCHANGED tokVars

\* ------------------------------------------------------------ tokenizer
TokNone == 0

Threads == 1..NThreads

TokInit ==
    /\ tokenizer = TokNone
    /\ tpc = [t \in Threads |-> "idle"]
    /\ seen = [t \in Threads |-> TokNone]
    /\ loaded = [t \in Threads |-> TokNone]
    /\ returned = [t \in Threads |-> TokNone]
    /\ quiet = [t \in Threads |-> FALSE]
    /\ loads = 0
    /\ ncalls = 0
    /\ history = <<>>

\* line 25: the test of the module global
needs_load_Always(value) == TRUE

needs_load(value) == value = TokNone

\* line 30: the value get_encoder returns is a fresh read of the module global
return_value_Stale(t) == seen[t]

return_value(t) == tokenizer

\* a first use is in progress: some call has found None and has not stored yet
first_use_pending == \E u \in Threads : tpc[u] \in {"load", "store"}

Enter_get_encoder(t) ==
    /\ tpc[t] = "idle"
    /\ ncalls < MaxCalls
    /\ ncalls' = ncalls + 1
    /\ tpc' = [tpc EXCEPT ![t] = "test"]
    /\ quiet' = [quiet EXCEPT ![t] = tokenizer # TokNone /\ ~first_use_pending]
    /\ seen' = [seen EXCEPT ![t] = TokNone]
    /\ loaded' = [loaded EXCEPT ![t] = TokNone]
    /\ UNCHANGED <<tokenizer, returned, loads, history>>

\* a call starts while other calls may be in progress
get_encoder_enter ==
    /\ \E t \in Threads : Enter_get_encoder(t)
    /\ UNCHANGED clientVars

\* a call starts when no other call is in progress
get_encoder_enter_alone ==
    /\ \A u \in Threads : tpc[u] = "idle"
    /\ \E t \in Threads : Enter_get_encoder(t)
    /\ UNCHANGED clientVars

\* line 25: if tokenizer is None
get_encoder_test ==
    /\ \E t \in Threads :
          /\ tpc[t] = "test"
          /\ seen' = [seen EXCEPT ![t] = tokenizer]
          /\ tpc' = [tpc EXCEPT ![t] = IF needs_load(tokenizer) THEN "load" ELSE "return"]
    /\ UNCHANGED <<tokenizer, loaded, returned, quiet, loads, ncalls, history>>
    /\ UNCHANGED clientVars

\* lines 26-28, right-hand side: GPT2Tokenizer.from_pretrained builds a new instance
get_encoder_load ==
    /\ \E t \in Threads :
          /\ tpc[t] = "load"
          /\ loaded' = [loaded EXCEPT ![t] = loads + 1]
          /\ tpc' = [tpc EXCEPT ![t] = "store"]
    /\ loads' = loads + 1
    /\ UNCHANGED <<tokenizer, seen, returned, quiet, ncalls, history>>
    /\ UNCHANGED clientVars

\* line 28, left-hand side: the assignment to the module global
get_encoder_store ==
    /\ \E t \in Threads :
          /\ tpc[t] = "store"
          /\ tokenizer' = loaded[t]
          /\ tpc' = [tpc EXCEPT ![t] = "return"]
    /\ UNCHANGED <<seen, loaded, returned, quiet, loads, ncalls, history>>
    /\ UNCHANGED clientVars

\* line 30: return tokenizer
get_encoder_return ==
    /\ \E t \in Threads :
          /\ tpc[t] = "return"
          /\ returned' = [returned EXCEPT ![t] = return_value(t)]
          /\ history' = Append(history, [thread |-> t, value |-> return_value(t),
                                         quiet |-> quiet[t], first_use |-> needs_load(seen[t])])
          /\ tpc' = [tpc EXCEPT ![t] = "idle"]
    /\ UNCHANGED <<tokenizer, seen, loaded, quiet, loads, ncalls>>
    /\ UNCHANGED clientVars

\* -------------------------------------------------------- specifications
Init == ClientInit /\ TokInit

Next == invoke \/ validate_credentials \/ post_returns \/ call_ends

Spec == Init /\ [][Next]_vars

NextSeq ==
    \/ get_encoder_enter_alone
    \/ get_encoder_test
    \/ get_encoder_load
    \/ get_encoder_store
    \/ get_encoder_return

SpecSeq == Init /\ [][NextSeq]_vars

NextConc ==
    \/ get_encoder_enter
    \/ get_encoder_test
    \/ get_encoder_load
    \/ get_encoder_store
    \/ get_encoder_return

SpecConc == Init /\ [][NextConc]_vars

\* ------------------------------------------------------------ properties
Replied == pc = "done" /\ response.kind = "response"

ErrorBodyWellFormed ==
    /\ response.text.kind = "object"
    /\ "error" \in DOMAIN response.text.obj
    /\ {"code", "message"} \subseteq DOMAIN response.text.obj["error"]

\* C1: a call of _invoke whose texts list has a length other than 1 ends with
\* InvokeBadRequestError, whatever the model name and the credentials are, and at
\* no point of the call has an HTTP request been sent.
C1_BadRequestBeforeAnyRequest ==
    (pc # "idle" /\ Len(args.texts) # 1) =>
        /\ pc = "done"
        /\ outcome.exc = "InvokeBadRequestError"
        /\ requests = <<>>

C1_Witness ==
    /\ pc = "done"
    /\ Len(args.texts) = 2
    /\ "server_url" \notin DOMAIN args.credentials
    /\ args.model = ""
    /\ outcome.exc = "InvokeBadRequestError"

\* C2: a call of _invoke with exactly one text in which server_url is empty or
\* missing from the credentials mapping, or the model name is empty, ends with
\* CredentialsValidateFailedError and sends no HTTP request.
C2_CredentialsValidationWhenEmptyOrMissing ==
    (/\ pc # "idle"
     /\ caller = "_invoke"
     /\ Len(args.texts) = 1
     /\ \/ "server_url" \notin DOMAIN args.credentials
        \/ args.credentials["server_url"] = ""
        \/ args.model = "") =>
        /\ pc = "done"
        /\ outcome.exc = "CredentialsValidateFailedError"
        /\ requests = <<>>

\* C3: a non-200 response whose body is JSON carrying error.code and error.message
\* ends _invoke with: InvokeServerUnavailableError when error.code is 500, whatever
\* the status; otherwise InvokeAuthorizationError for status 401, InvokeRateLimitError
\* for 429, InvokeServerUnavailableError for 500 and InvokeError for any other status.
C3_ErrorCodeBeforeStatus ==
    (Replied /\ response.status_code # 200 /\ ErrorBodyWellFormed) =>
        LET code == response.text.obj["error"]["code"]
            status == response.status_code
        IN  /\ code = 500 => outcome.exc = "InvokeServerUnavailableError"
            /\ (code # 500 /\ status = 401) => outcome.exc = "InvokeAuthorizationError"
            /\ (code # 500 /\ status = 429) => outcome.exc = "InvokeRateLimitError"
            /\ (code # 500 /\ status = 500) => outcome.exc = "InvokeServerUnavailableError"
            /\ (code # 500 /\ status \notin {401, 429, 500}) => outcome.exc = "InvokeError"

C3_Witness ==
    /\ Replied
    /\ response.status_code = 401
    /\ ErrorBodyWellFormed
    /\ response.text.obj["error"]["code"] = 500
    /\ outcome.exc = "InvokeServerUnavailableError"

\* the body of a 200 response from which a result can be built
BodyUsable ==
    /\ response.text.kind = "object"
    /\ {"data", "usage"} \subseteq DOMAIN response.text.obj
    /\ "total_tokens" \in DOMAIN response.text.obj["usage"]
    /\ \A i \in 1..Len(response.text.obj["data"]) :
          "embedding" \in DOMAIN response.text.obj["data"][i]

\* C4: a 200 response whose body is malformed JSON, or JSON that lacks data, usage,
\* usage.total_tokens or an entry's embedding, ends _invoke with
\* InvokeServerUnavailableError whose message includes the raw response text; no
\* other error kind leaves the 200 path.
C4_UnusableBodyIsServerUnavailable ==
    (Replied /\ response.status_code = 200) =>
        IF BodyUsable
        THEN outcome.exc = "none"
        ELSE /\ outcome.exc = "InvokeServerUnavailableError"
             /\ "text" \in DOMAIN outcome.msg
             /\ outcome.msg.text = response.text

\* C5: every result _invoke returns has as many embeddings as texts were requested,
\* which is 1, however many entries the data array of the 200 response has.
C5_OneEmbeddingPerText ==
    (pc = "done" /\ outcome.exc = "none") =>
        /\ Len(outcome.value.embeddings) = Len(args.texts)
        /\ Len(outcome.value.embeddings) = 1

\* C6: validate_credentials probes _invoke with the single text "ping"; an
\* InvokeAuthorizationError or InvokeConnectionError of the probe becomes
\* CredentialsValidateFailedError, every other error of the probe leaves
\* validate_credentials unchanged, and a probe that returns makes it return normally.
C6_ProbeOutcomeTranslation ==
    (caller = "validate_credentials" /\ pc # "idle") =>
        /\ args.texts = <<"ping">>
        /\ Len(requests) <= 1
        /\ pc = "done" =>
            /\ outcome.exc \in {"InvokeAuthorizationError", "InvokeConnectionError"}
                  => result.exc = "CredentialsValidateFailedError"
            /\ outcome.exc \notin {"InvokeAuthorizationError", "InvokeConnectionError", "none"}
                  => result = outcome
            /\ outcome.exc = "none" => result = Return(NoValue)

C6_Witness ==
    /\ caller = "validate_credentials"
    /\ pc = "done"
    /\ outcome.exc = "InvokeConnectionError"
    /\ result.exc = "CredentialsValidateFailedError"

\* C7: a non-200 response whose body is no JSON ends _invoke with
\* InvokeServerUnavailableError, whatever the status, and the message holds the raw
\* response text and the reason the parse failed.
C7_UnparsableErrorBody ==
    (Replied /\ response.status_code # 200 /\ response.text.kind = "text") =>
        /\ outcome.exc = "InvokeServerUnavailableError"
        /\ {"text", "e"} \subseteq DOMAIN outcome.msg
        /\ outcome.msg.text = response.text
        /\ outcome.msg.e = "Expecting value"

C7_Witness ==
    /\ Replied
    /\ response.status_code = 401
    /\ response.text.kind = "text"
    /\ outcome.exc = "InvokeServerUnavailableError"

\* C10: every non-200 response, whatever its status and body, ends _invoke with
\* InvokeServerUnavailableError, InvokeAuthorizationError, InvokeRateLimitError or
\* InvokeError: no other failure leaves _invoke and no result is returned.
C10_NonOkAlwaysInTaxonomy ==
    (Replied /\ response.status_code # 200) =>
        outcome.exc \in {"InvokeServerUnavailableError", "InvokeAuthorizationError",
                         "InvokeRateLimitError", "InvokeError"}

Finished == 1..Len(history)

\* C8: when get_encoder calls do not overlap, from_pretrained runs exactly once,
\* during the first call; every call returns the same instance; and the module
\* global, once set, is neither set back to None nor replaced.
C8_State ==
    /\ loads <= 1
    /\ (Len(history) >= 1 \/ ncalls >= 2) => loads = 1
    /\ \A i \in Finished :
          /\ history[i].value # TokNone
          /\ history[i].value = history[1].value
          /\ history[i].value = tokenizer

C8_LoadedOnceWhenSequential ==
    /\ []C8_State
    /\ [][tokenizer # TokNone => tokenizer' = tokenizer]_vars

C8_Witness ==
    /\ Len(history) >= 3
    /\ history[1].thread # history[2].thread
    /\ loads = 1
    /\ history[3].value = history[1].value

\* C9: when get_encoder calls of several threads overlap during first use, every
\* call returns a constructed tokenizer (never None), the module global never goes
\* back to None once set, and every call that starts once the global is set and no
\* first use is still in progress returns one and the same instance.
C9_State ==
    /\ \A i \in Finished : history[i].value # TokNone
    /\ \A i, j \in Finished :
          (history[i].quiet /\ history[j].quiet) => history[i].value = history[j].value
    /\ \A i \in Finished : history[i].quiet => history[i].value = tokenizer

C9_RaceOnlyWastesInstances ==
    /\ []C9_State
    /\ [][tokenizer # TokNone => tokenizer' # TokNone]_vars

\* two overlapping first uses built two instances and returned different ones,
\* and two later calls both got the one that stayed
C9_Witness ==
    /\ loads >= 2
    /\ Len(history) >= 4
    /\ history[1].value # history[2].value
    /\ history[3].quiet /\ history[4].quiet
    /\ history[3].value = history[4].value
====
